---- MODULE Spec2Model ----
(***************************************************************************)
(* Model of the streaming chat client ChatApp (src/unnamed/part_000, the   *)
(* latest revision of frontend/src/components/ChatApp.jsx).                *)
(*                                                                         *)
(* Text is a sequence of one-character strings.  The React state           *)
(* (messages, thinking, input, isGenerating, showThinkingDetails) holds    *)
(* the committed values; a state setter called from an EventSource         *)
(* listener is queued in `pending` and applied, in call order, by the next *)
(* render (Render), while a setter called from a user event (click, key)   *)
(* is rendered before any other callback runs.  Refs and the closure       *)
(* variables of sendPrompt (rawMarkdown, lastAssistantMsgIndex) change at  *)
(* once.  An EventSource that has been closed dispatches no further event  *)
(* to its listeners (readyState CLOSED).                                   *)
(***************************************************************************)
EXTENDS Naturals, Integers, Sequences, FiniteSets, TLC

\* ------------------------------------------------------------------ bounds
MaxPrompts == 2
MaxEvents == 4

Streams == 1..MaxPrompts

\* Payloads a well-formed chunk / thinking event carries, and texts typed.
ChunkSet == {<<>>, <<"a">>, <<"b">>}
ThinkSet == {<<"t">>}
InputSet == {<<>>, <<" ">>, <<" ", "p">>}

\* The text of the synthetic assistant turn appended by onerror.
ErrorMessage == <<"E">>

VARIABLES
  messages,              \* useState: sequence of [role, content]
  thinking,              \* useState: sequence of reasoning steps
  input,                 \* useState: text of the prompt box
  isGenerating,          \* useState
  showThinkingDetails,   \* useState
  eventSourceRef,        \* useRef: 0 (null) or the stream it refers to
  nStreams,              \* number of EventSource objects created so far
  readyState,            \* per EventSource: "none", "open" or "closed"
  rawMarkdown,           \* per sendPrompt call: the answer buffer
  lastAssistantMsgIndex, \* per sendPrompt call: -1 or a 0-based index
  pending,               \* queued state updates, not yet rendered
  nEvents,               \* events the server has sent so far (bounded)
  ended,                 \* history: how each stream ended
  sent,                  \* history: the chunk payloads handled, concatenated
  gotChunk,              \* history: a well-formed chunk has been handled
  dom,                   \* per hydrated placeholder (data-processed): what it
                         \* shows, and history: widget calls made, effect
                         \* runs that saw it
  mermaidLoaded,         \* whether window.mermaid is defined
  last                   \* history: whether the last step was an event that was
                         \* dropped ("late") or failed to parse ("bad")

vars == <<messages, thinking, input, isGenerating, showThinkingDetails,
          eventSourceRef, nStreams, readyState, rawMarkdown,
          lastAssistantMsgIndex, pending, nEvents, ended, sent, gotChunk,
          dom, mermaidLoaded, last>>

\* ------------------------------------------------------------- text helpers
IsSpace(ch) == ch = " "

RECURSIVE TrimStart(_)
TrimStart(t) ==
  IF t # <<>> /\ IsSpace(Head(t)) THEN TrimStart(Tail(t)) ELSE t

RECURSIVE TrimEnd(_)
TrimEnd(t) ==
  IF t # <<>> /\ IsSpace(t[Len(t)]) THEN TrimEnd(SubSeq(t, 1, Len(t) - 1)) ELSE t

\* String.prototype.trim
\* Mutant: nothing is trimmed.
TrimNone(t) == t

Trim(t) == TrimEnd(TrimStart(t))

RECURSIVE Concat(_)
Concat(ss) == IF ss = <<>> THEN <<>> ELSE Head(ss) \o Concat(Tail(ss))

\* ------------------------------------------------------------ segmentation
\* Text tokens: "F" is a fence of three backticks; "m", "d", "p" are the words
\* mermaid, datatables, plotly; "g" is diagram source the diagram engine
\* accepts; "j" is a JSON value; "!" is text that is neither; " " is
\* whitespace; "c" is a JSON object with data and layout members; anything
\* else is prose.
TagName(ch) ==
  CASE ch = "m" -> "mermaid" [] ch = "d" -> "datatables" [] ch = "p" -> "plotly"
    [] OTHER -> "none"

\* blockRegex: the first position >= from where ```(plotly|mermaid|datatables)
\* starts a region that a later ``` closes; 0 when there is none.
FindOpen(c, from) ==
  LET opens == {i \in from..(Len(c) - 2) :
                  /\ c[i] = "F"
                  /\ TagName(c[i + 1]) # "none"
                  /\ \E j \in (i + 2)..Len(c) : c[j] = "F"}
  IN  IF opens = {} THEN 0 ELSE CHOOSE i \in opens : \A j \in opens : i <= j

\* Mutant: the body runs to the last ``` of the text.
FindCloseGreedy(c, open) ==
  CHOOSE j \in (open + 2)..Len(c) :
    c[j] = "F" /\ \A k \in (j + 1)..Len(c) : c[k] # "F"

\* The lazy body [\s\S]*? ends at the first ``` after the tag.
FindClose(c, open) ==
  CHOOSE j \in (open + 2)..Len(c) :
    c[j] = "F" /\ \A k \in (open + 2)..(j - 1) : c[k] # "F"

\* Mutant: the scan resumes one character too far after a block.
AfterBlockSkips(close) == close + 2

\* lastIndex = match.index + match[0].length, as a position to resume from.
AfterBlock(close) == close + 1

MdSegment(key, text) == [type |-> "md", key |-> key, body |-> text, raw |-> text]

\* The while loop of renderAssistantMessage from lastIndex = from - 1 with the
\* element counter at key, followed by the trailing text.
RECURSIVE SegFrom(_, _, _)
SegFrom(c, from, key) ==
  LET open == FindOpen(c, from)
  IN  IF open = 0
      THEN IF from <= Len(c) THEN <<MdSegment(key, SubSeq(c, from, Len(c)))>>
                             ELSE <<>>
      ELSE LET close == FindClose(c, open)
               pre == IF open > from
                      THEN <<MdSegment(key, SubSeq(c, from, open - 1))>>
                      ELSE <<>>
               k2 == key + Len(pre)
               blk == [type |-> TagName(c[open + 1]), key |-> k2,
                       body |-> Trim(SubSeq(c, open + 2, close - 1)),
                       raw  |-> SubSeq(c, open, close)]
           IN  pre \o <<blk>> \o SegFrom(c, AfterBlock(close), k2 + 1)

\* Mutant: a fence left open at the end of the text is taken as closed there.
SegmentsEager(content) == SegFrom(content \o <<"F">>, 1, 0)

\* Mutant: the element counter starts at the length of the content.
SegmentsKeyedFromLength(content) == SegFrom(content, 1, Len(content))

\* renderAssistantMessage(content, idx): the elements, in order.
Segments(content) == SegFrom(content, 1, 0)

\* --------------------------------------------------------------- charts
\* chartConfig.data && chartConfig.layout, for a body that parsed.
HasDataAndLayout(body) == body = <<"c">>

\* Mutant: every body that parses gets a chart.
PlotlyElementAnyJson(body) ==
  IF body \in {<<"j">>, <<"c">>}
  THEN [view |-> "chart", key |-> "plotly", shown |-> <<>>]
  ELSE [view |-> "fallback", key |-> "plotly-fallback", shown |-> body]

\* The plotly branch of renderAssistantMessage for the trimmed body: a Plot
\* element, or the error text with the body in a pre element.
PlotlyElement(body) ==
  IF body \in {<<"j">>, <<"c">>} /\ HasDataAndLayout(body)
  THEN [view |-> "chart", key |-> "plotly", shown |-> <<>>]
  ELSE [view |-> "fallback", key |-> "plotly-fallback", shown |-> body]

\* The plotly elements of answer content, in order.
RECURSIVE PlotlyOf(_)
PlotlyOf(sgs) ==
  IF sgs = <<>> THEN <<>>
  ELSE (IF Head(sgs).type = "plotly" THEN <<PlotlyElement(Head(sgs).body)>>
        ELSE <<>>) \o PlotlyOf(Tail(sgs))

Charts(content) == PlotlyOf(Segments(content))

\* --------------------------------------------------------------- hydration
\* The placeholders of the rendered conversation that the hydration effect
\* looks for: the mermaid and datatables elements of every assistant bubble,
\* each with its id (type, turn index, element counter) and its
\* data-mermaid-code / data-table-config.
SegSet(content) ==
  LET sgs == Segments(content) IN {sgs[n] : n \in 1..Len(sgs)}

\* Mutant: the ids leave out the turn index.
PlaceholdersNoTurn(msgs) ==
  UNION {
    {[id |-> <<sg.type, 0, sg.key>>, body |-> sg.body] :
       sg \in {x \in SegSet(msgs[i].content) : x.type \in {"mermaid", "datatables"}}}
    : i \in {n \in 1..Len(msgs) : msgs[n].role = "assistant"}}

Placeholders(msgs) ==
  UNION {
    {[id |-> <<sg.type, i - 1, sg.key>>, body |-> sg.body] :
       sg \in {x \in SegSet(msgs[i].content) : x.type \in {"mermaid", "datatables"}}}
    : i \in {n \in 1..Len(msgs) : msgs[n].role = "assistant"}}

\* mermaid.render resolves with an svg for source the engine accepts.
EngineAccepts(code) == code # <<>> /\ \A n \in 1..Len(code) : code[n] \in {"g", " "}

\* JSON.parse succeeds.
JsonParses(text) == text \in {<<"j">>, <<"c">>}

\* Mutant: the selector does not look at data-processed.
UnprocessedAll(d, slots) == slots

\* Mutant: a placeholder that shows its fallback is selected again.
UnprocessedOrFailed(d, slots) ==
  {k \in slots : k.id \notin DOMAIN d \/ d[k.id].view = "fallback"}

\* Mutant: the marker is set when mermaid.render has returned, so that a
\* placeholder whose render is pending is selected again.
UnprocessedOrPending(d, slots) ==
  {k \in slots : k.id \notin DOMAIN d \/ d[k.id].view = "rendering"}

\* The selector :not([data-processed='true']).
Unprocessed(d, slots) == {k \in slots : k.id \notin DOMAIN d}

\* Whether hydrating placeholder k calls the widget engine (mermaid.render,
\* DataTable), and what the placeholder shows right after the effect ran.
CallsEngine(k) ==
  IF k.id[1] = "mermaid" THEN k.body # <<>> /\ mermaidLoaded
                         ELSE JsonParses(k.body)

FirstView(k) ==
  IF k.id[1] = "mermaid"
  THEN IF CallsEngine(k) THEN "rendering" ELSE "fallback"
  ELSE IF CallsEngine(k) THEN "widget" ELSE "fallback"

\* The hydration effect on the conversation msgs; code is the attribute
\* value the callback read when it ran.
Hydrate(d, msgs) ==
  LET slots == Placeholders(msgs)
      todo  == Unprocessed(d, slots)
      ids   == DOMAIN d \cup {k.id : k \in slots}
      Slot(id) == CHOOSE k \in slots : k.id = id
      Old(id) == IF id \in DOMAIN d THEN d[id]
                 ELSE [view |-> "placeholder", fired |-> 0, seen |-> 0,
                       code |-> <<>>]
  IN  [id \in ids |->
         IF id \notin {k.id : k \in slots} THEN d[id]
         ELSE LET k == Slot(id)
                  o == Old(id)
              IN  IF k \in todo
                  THEN [view  |-> FirstView(k),
                        fired |-> o.fired + (IF CallsEngine(k) THEN 1 ELSE 0),
                        seen  |-> o.seen + 1,
                        code  |-> k.body]
                  ELSE [o EXCEPT !.seen = @ + 1]]

\* useEffect(..., [messages]): the effect runs after a render that changed
\* messages.
ChangesMessages(q) ==
  \E n \in 1..Len(q) : q[n].t \in {"pushUser", "chunk", "error"}

\* ------------------------------------------------------ queued state updates
Upd(t, s, c) == [t |-> t, s |-> s, c |-> c]

\* Mutant: a later chunk replaces the turn's content by that chunk alone.
ChunkUpdaterLastChunk(msgs, idx, dc, raw) ==
  IF idx = -1 \/ ~(idx < Len(msgs) /\ msgs[idx + 1].role = "assistant")
  THEN [msgs |-> Append(msgs, [role |-> "assistant", content |-> dc]),
        idx  |-> Len(msgs)]
  ELSE [msgs |-> [msgs EXCEPT ![idx + 1].content = dc],
        idx  |-> idx]

\* Mutant: the updater writes the buffer into the last assistant turn of the
\* list, whichever prompt it belongs to, and appends one if there is none.
ChunkUpdaterLastAssistant(msgs, idx, dc, raw) ==
  LET as == {i \in 1..Len(msgs) : msgs[i].role = "assistant"}
      top == CHOOSE i \in as : \A j \in as : j <= i
  IN  IF as = {}
      THEN [msgs |-> Append(msgs, [role |-> "assistant", content |-> dc]),
            idx  |-> Len(msgs)]
      ELSE [msgs |-> [msgs EXCEPT ![top].content = raw], idx |-> top - 1]

\* Mutant: the first chunk's turn is put at the head of the list.
ChunkUpdaterInsertsFirst(msgs, idx, dc, raw) ==
  IF idx = -1 \/ ~(idx < Len(msgs) /\ msgs[idx + 1].role = "assistant")
  THEN [msgs |-> <<[role |-> "assistant", content |-> dc]>> \o msgs,
        idx  |-> 0]
  ELSE [msgs |-> [msgs EXCEPT ![idx + 1].content = raw],
        idx  |-> idx]

\* Mutant: every chunk inserts a turn of its own.
ChunkUpdaterPushesAlways(msgs, idx, dc, raw) ==
  [msgs |-> Append(msgs, [role |-> "assistant", content |-> dc]),
   idx  |-> Len(msgs)]

\* Mutant: the updater writes the buffer into the first assistant turn of
\* the list, and appends one if there is none.
ChunkUpdaterFirstAssistant(msgs, idx, dc, raw) ==
  LET as == {i \in 1..Len(msgs) : msgs[i].role = "assistant"}
      first == CHOOSE i \in as : \A j \in as : i <= j
  IN  IF as = {}
      THEN [msgs |-> Append(msgs, [role |-> "assistant", content |-> dc]),
            idx  |-> Len(msgs)]
      ELSE [msgs |-> [msgs EXCEPT ![first].content = raw], idx |-> first - 1]

\* The updater of the chunk listener: it reads lastAssistantMsgIndex and
\* rawMarkdown when it runs, and data.content as captured by the listener.
ChunkUpdater(msgs, idx, dc, raw) ==
  IF idx = -1 \/ ~(idx < Len(msgs) /\ msgs[idx + 1].role = "assistant")
  THEN [msgs |-> Append(msgs, [role |-> "assistant", content |-> dc]),
        idx  |-> Len(msgs)]
  ELSE [msgs |-> [msgs EXCEPT ![idx + 1].content = raw],
        idx  |-> idx]

\* Mutant: the failure turn is appended only when no answer turn follows the
\* prompt.
ErrorUpdaterIfNoAnswer(msgs) ==
  IF msgs # <<>> /\ msgs[Len(msgs)].role = "assistant"
  THEN msgs
  ELSE Append(msgs, [role |-> "assistant", content |-> ErrorMessage])

\* Mutant: the failure message overwrites the last assistant turn.
ErrorUpdaterOverwrites(msgs) ==
  IF msgs # <<>> /\ msgs[Len(msgs)].role = "assistant"
  THEN [msgs EXCEPT ![Len(msgs)].content = ErrorMessage]
  ELSE Append(msgs, [role |-> "assistant", content |-> ErrorMessage])

\* The updater of onerror.
ErrorUpdater(msgs) ==
  Append(msgs, [role |-> "assistant", content |-> ErrorMessage])

\* Mutant: the new step is put in front of the log.
ThinkingUpdaterPrepends(prev, c) == <<c>> \o prev

\* The updater of the thinking listener.
ThinkingUpdater(prev, c) == Append(prev, c)

\* One queued update applied to the state st; raw is rawMarkdown as it is
\* when the update runs.
ApplyUpdate(st, u, raw) ==
  CASE u.t = "pushUser" ->
         [st EXCEPT !.messages = Append(@, [role |-> "user", content |-> u.c])]
    [] u.t = "setInput" -> [st EXCEPT !.input = u.c]
    [] u.t = "clearThinking" -> [st EXCEPT !.thinking = <<>>]
    [] u.t = "hideDetails" -> [st EXCEPT !.showThinkingDetails = FALSE]
    [] u.t = "toggleDetails" ->
         [st EXCEPT !.showThinkingDetails = ~showThinkingDetails]
    [] u.t = "genOn" -> [st EXCEPT !.isGenerating = TRUE]
    [] u.t = "genOff" -> [st EXCEPT !.isGenerating = FALSE]
    [] u.t = "think" -> [st EXCEPT !.thinking = ThinkingUpdater(@, u.c)]
    [] u.t = "chunk" ->
         LET r == ChunkUpdater(st.messages, st.idx[u.s], u.c, raw[u.s])
         IN  [st EXCEPT !.messages = r.msgs, !.idx[u.s] = r.idx]
    [] u.t = "error" -> [st EXCEPT !.messages = ErrorUpdater(@)]

RECURSIVE Flush(_, _, _)
Flush(st, q, raw) ==
  IF q = <<>> THEN st ELSE Flush(ApplyUpdate(st, Head(q), raw), Tail(q), raw)

\* The committed state together with the closure variable the updaters write.
Cur(idx) ==
  [messages |-> messages, thinking |-> thinking, input |-> input,
   isGenerating |-> isGenerating, showThinkingDetails |-> showThinkingDetails,
   idx |-> idx]

\* A render: the queued updates q are applied in order and committed.
Commit(q, idx, raw) ==
  LET st == Flush(Cur(idx), q, raw)
  IN  /\ messages' = st.messages
      /\ thinking' = st.thinking
      /\ input' = st.input
      /\ isGenerating' = st.isGenerating
      /\ showThinkingDetails' = st.showThinkingDetails
      /\ lastAssistantMsgIndex' = st.idx
      /\ pending' = <<>>
      /\ dom' = IF ChangesMessages(q) THEN Hydrate(dom, st.messages) ELSE dom

NoNote == [op |-> "none", s |-> 0, c |-> <<>>]

InitState ==
  /\ messages = <<>>
  /\ thinking = <<>>
  /\ input = <<>>
  /\ isGenerating = FALSE
  /\ showThinkingDetails = FALSE
  /\ eventSourceRef = 0
  /\ nStreams = 0
  /\ readyState = [s \in Streams |-> "none"]
  /\ rawMarkdown = [s \in Streams |-> <<>>]
  /\ lastAssistantMsgIndex = [s \in Streams |-> -1]
  /\ pending = <<>>
  /\ nEvents = 0
  /\ ended = [s \in Streams |-> "no"]
  /\ sent = [s \in Streams |-> <<>>]
  /\ gotChunk = [s \in Streams |-> FALSE]
  /\ dom = <<>>
  /\ last = NoNote

\* The page after ChatApp is mounted, with the mermaid script loaded.
Init == InitState /\ mermaidLoaded = TRUE

\* ------------------------------------------------------------ user actions
\* onChange of the textarea.
TypeInput(v) ==
  /\ v # input
  /\ Commit(pending \o <<Upd("setInput", 0, v)>>, lastAssistantMsgIndex, rawMarkdown)
  /\ last' = NoNote
  /\ UNCHANGED <<eventSourceRef, nStreams, readyState, rawMarkdown, nEvents,
                 ended, sent, gotChunk, mermaidLoaded>>

\* Mutant: close() has no effect.
CloseNoop(rs, s) == rs

\* EventSource.close(): readyState becomes CLOSED.
Close(rs, s) == [rs EXCEPT ![s] = "closed"]

\* Mutant: stopGenerating forgets to close the connection.
CloseCurrentSkip(rs) == rs

\* stopGenerating: eventSourceRef.current.close() when the ref is set.
CloseCurrent(rs) == IF eventSourceRef # 0 THEN Close(rs, eventSourceRef) ELSE rs

\* Mutant: stopGenerating ends generating whether or not a stream is current.
StopUpdatesAlways == <<Upd("genOff", 0, <<>>)>>

\* Mutant: stopGenerating leaves the generating flag alone.
StopUpdatesNone == <<>>

\* stopGenerating: the updates it queues.
StopUpdates == IF eventSourceRef # 0 THEN <<Upd("genOff", 0, <<>>)>> ELSE <<>>

\* Click on the stop button, which is rendered while isGenerating.
StopGenerating ==
  /\ isGenerating
  /\ readyState' = CloseCurrent(readyState)
  /\ eventSourceRef' = 0
  /\ ended' = IF eventSourceRef # 0
              THEN [ended EXCEPT ![eventSourceRef] = "stop"] ELSE ended
  /\ IF StopUpdates # <<>>
     THEN Commit(pending \o StopUpdates, lastAssistantMsgIndex, rawMarkdown)
     ELSE UNCHANGED <<messages, thinking, input, isGenerating,
                      showThinkingDetails, lastAssistantMsgIndex, pending, dom>>
  /\ last' = [op |-> "stop", s |-> eventSourceRef, c |-> <<>>]
  /\ UNCHANGED <<nStreams, rawMarkdown, nEvents, sent, gotChunk, mermaidLoaded>>

\* Mutant: a new prompt leaves the reasoning details as they are.
PromptUpdatesKeepDetails(prompt) ==
  <<Upd("pushUser", 0, prompt), Upd("setInput", 0, <<>>),
    Upd("clearThinking", 0, <<>>), Upd("genOn", 0, <<>>)>>

\* Mutant: a new prompt leaves the reasoning log as it is.
PromptUpdatesKeepLog(prompt) ==
  <<Upd("pushUser", 0, prompt), Upd("setInput", 0, <<>>),
    Upd("hideDetails", 0, <<>>), Upd("genOn", 0, <<>>)>>

\* sendPrompt: the state updates it queues, in order.
PromptUpdates(prompt) ==
  <<Upd("pushUser", 0, prompt), Upd("setInput", 0, <<>>),
    Upd("clearThinking", 0, <<>>), Upd("hideDetails", 0, <<>>),
    Upd("genOn", 0, <<>>)>>

\* sendPrompt, as called by the submit button and by Enter.
SendPrompt ==
  LET prompt == Trim(input)
      n == nStreams + 1
  IN  IF prompt = <<>>
      THEN /\ last' = [op |-> "blank", s |-> 0, c |-> <<>>]
           /\ UNCHANGED <<messages, thinking, input, isGenerating,
                          showThinkingDetails, eventSourceRef, nStreams,
                          readyState, rawMarkdown, lastAssistantMsgIndex,
                          pending, nEvents, ended, sent, gotChunk, dom,
                          mermaidLoaded>>
      ELSE /\ nStreams < MaxPrompts
           /\ nStreams' = n
           /\ readyState' = [CloseCurrent(readyState) EXCEPT ![n] = "open"]
           /\ ended' = IF eventSourceRef # 0
                       THEN [ended EXCEPT ![eventSourceRef] = "stop"] ELSE ended
           /\ eventSourceRef' = n
           /\ Commit(pending \o StopUpdates \o PromptUpdates(prompt),
                     lastAssistantMsgIndex, rawMarkdown)
           /\ last' = NoNote
           /\ UNCHANGED <<rawMarkdown, nEvents, sent, gotChunk, mermaidLoaded>>

\* Click on the submit button: rendered while not generating, disabled while
\* the trimmed input is empty.
ClickSubmit ==
  /\ ~isGenerating
  /\ Trim(input) # <<>>
  /\ SendPrompt

\* Mutant: Enter calls sendPrompt whether or not an answer is generating.
PressEnterUnguarded == SendPrompt

\* handleInputKeyDown for Enter without Shift.
PressEnter ==
  IF ~isGenerating
  THEN SendPrompt
  ELSE /\ last' = [op |-> "busy", s |-> eventSourceRef, c |-> <<>>]
       /\ UNCHANGED <<messages, thinking, input, isGenerating,
                      showThinkingDetails, eventSourceRef, nStreams,
                      readyState, rawMarkdown, lastAssistantMsgIndex,
                      pending, nEvents, ended, sent, gotChunk, dom,
                      mermaidLoaded>>

\* toggleThinkingDetails: a click on the header of the reasoning section,
\* which is rendered while not generating and the log is not empty.
ToggleThinkingDetails ==
  /\ ~isGenerating
  /\ thinking # <<>>
  /\ Commit(pending \o <<Upd("toggleDetails", 0, <<>>)>>,
            lastAssistantMsgIndex, rawMarkdown)
  /\ last' = NoNote
  /\ UNCHANGED <<eventSourceRef, nStreams, readyState, rawMarkdown, nEvents,
                 ended, sent, gotChunk, mermaidLoaded>>

\* ------------------------------------------------------- server-sent events
\* What every listener leaves alone.
ListenerFrame ==
  UNCHANGED <<messages, thinking, input, isGenerating, showThinkingDetails,
              nStreams, dom, mermaidLoaded>>

\* An event of stream s that the EventSource does not dispatch (it is closed).
Dropped(s) ==
  /\ last' = [op |-> "late", s |-> s, c |-> <<>>]
  /\ nEvents' = nEvents + 1
  /\ ListenerFrame
  /\ UNCHANGED <<eventSourceRef, readyState, rawMarkdown,
                 lastAssistantMsgIndex, pending, ended, sent, gotChunk>>

\* Mutant: the done listener runs for a connection that is closed.
DroppedEndClearsRef(s) ==
  /\ last' = [op |-> "lateEnd", s |-> s, c |-> <<>>]
  /\ nEvents' = nEvents + 1
  /\ eventSourceRef' = 0
  /\ pending' = pending \o <<Upd("genOff", s, <<>>)>>
  /\ ListenerFrame
  /\ UNCHANGED <<readyState, rawMarkdown, lastAssistantMsgIndex, ended, sent,
                 gotChunk>>

\* A done or error event of stream s that the EventSource does not dispatch.
DroppedEnd(s) ==
  /\ last' = [op |-> "lateEnd", s |-> s, c |-> <<>>]
  /\ nEvents' = nEvents + 1
  /\ ListenerFrame
  /\ UNCHANGED <<eventSourceRef, readyState, rawMarkdown,
                 lastAssistantMsgIndex, pending, ended, sent, gotChunk>>

Sendable(s) == s <= nStreams /\ nEvents < MaxEvents

\* The "thinking" listener, for a payload that parses to {content: c}.
ThinkingListener(s, c) ==
  /\ pending' = pending \o <<Upd("think", s, c)>>
  /\ last' = [op |-> "think", s |-> s, c |-> c]
  /\ nEvents' = nEvents + 1
  /\ ListenerFrame
  /\ UNCHANGED <<eventSourceRef, readyState, rawMarkdown,
                 lastAssistantMsgIndex, ended, sent, gotChunk>>

ThinkingEvent(s, c) ==
  /\ Sendable(s)
  /\ IF readyState[s] = "open" THEN ThinkingListener(s, c)
                               ELSE Dropped(s)

\* The "chunk" listener, for a payload that parses to {content: c}.
ChunkListener(s, c) ==
  /\ rawMarkdown' = [rawMarkdown EXCEPT ![s] = @ \o c]
  /\ pending' = pending \o <<Upd("chunk", s, c)>>
  /\ sent' = [sent EXCEPT ![s] = @ \o c]
  /\ gotChunk' = [gotChunk EXCEPT ![s] = TRUE]
  /\ last' = NoNote
  /\ nEvents' = nEvents + 1
  /\ ListenerFrame
  /\ UNCHANGED <<eventSourceRef, readyState, lastAssistantMsgIndex, ended>>

ChunkEvent(s, c) ==
  /\ Sendable(s)
  /\ IF readyState[s] = "open" THEN ChunkListener(s, c)
                               ELSE Dropped(s)

\* Mutant: a payload that does not parse ends the stream.
MalformedListenerAborts(s, kind) ==
  /\ readyState' = [readyState EXCEPT ![s] = "closed"]
  /\ eventSourceRef' = 0
  /\ pending' = pending \o <<Upd("genOff", s, <<>>)>>
  /\ last' = [op |-> "bad", s |-> s, c |-> <<>>]
  /\ nEvents' = nEvents + 1
  /\ ListenerFrame
  /\ UNCHANGED <<rawMarkdown, lastAssistantMsgIndex, ended, sent, gotChunk>>

\* The "thinking" or "chunk" listener for a payload JSON.parse rejects: the
\* catch block logs and returns.
MalformedListener(s, kind) ==
  /\ last' = [op |-> "bad", s |-> s, c |-> <<>>]
  /\ nEvents' = nEvents + 1
  /\ ListenerFrame
  /\ UNCHANGED <<eventSourceRef, readyState, rawMarkdown,
                 lastAssistantMsgIndex, pending, ended, sent, gotChunk>>

MalformedEvent(s, kind) ==
  /\ Sendable(s)
  /\ IF readyState[s] = "open" THEN MalformedListener(s, kind)
                               ELSE Dropped(s)

\* Mutant: the done listener leaves isGenerating as it is.
DoneListenerKeepsFlag(s) ==
  /\ readyState' = Close(readyState, s)
  /\ eventSourceRef' = 0
  /\ lastAssistantMsgIndex' = [lastAssistantMsgIndex EXCEPT ![s] = -1]
  /\ ended' = [ended EXCEPT ![s] = "done"]
  /\ last' = NoNote
  /\ nEvents' = nEvents + 1
  /\ ListenerFrame
  /\ UNCHANGED <<rawMarkdown, sent, gotChunk, pending>>

\* The "done" listener.
DoneListener(s) ==
  /\ readyState' = Close(readyState, s)
  /\ eventSourceRef' = 0
  /\ pending' = pending \o <<Upd("genOff", s, <<>>)>>
  /\ lastAssistantMsgIndex' = [lastAssistantMsgIndex EXCEPT ![s] = -1]
  /\ ended' = [ended EXCEPT ![s] = "done"]
  /\ last' = NoNote
  /\ nEvents' = nEvents + 1
  /\ ListenerFrame
  /\ UNCHANGED <<rawMarkdown, sent, gotChunk>>

DoneEvent(s) ==
  /\ Sendable(s)
  /\ IF readyState[s] = "open" THEN DoneListener(s) ELSE DroppedEnd(s)

\* eventSource.onerror.
ErrorListener(s) ==
  /\ readyState' = Close(readyState, s)
  /\ eventSourceRef' = 0
  /\ pending' = pending \o <<Upd("genOff", s, <<>>), Upd("error", s, <<>>)>>
  /\ lastAssistantMsgIndex' = [lastAssistantMsgIndex EXCEPT ![s] = -1]
  /\ ended' = [ended EXCEPT ![s] = "error"]
  /\ last' = NoNote
  /\ nEvents' = nEvents + 1
  /\ ListenerFrame
  /\ UNCHANGED <<rawMarkdown, sent, gotChunk>>

ErrorEvent(s) ==
  /\ Sendable(s)
  /\ IF readyState[s] = "open" THEN ErrorListener(s) ELSE DroppedEnd(s)

\* ------------------------------------------------------------------ render
\* React renders: the queued updates are applied and committed.
Render ==
  /\ pending # <<>>
  /\ Commit(pending, lastAssistantMsgIndex, rawMarkdown)
  /\ last' = NoNote
  /\ UNCHANGED <<eventSourceRef, nStreams, readyState, rawMarkdown, nEvents,
                 ended, sent, gotChunk, mermaidLoaded>>

Next ==
  \/ \E v \in InputSet : TypeInput(v)
  \/ ClickSubmit
  \/ PressEnter
  \/ StopGenerating
  \/ \E s \in Streams, c \in ThinkSet : ThinkingEvent(s, c)
  \/ \E s \in Streams, c \in ChunkSet : ChunkEvent(s, c)
  \/ \E s \in Streams, k \in {"badThinking", "badChunk"} : MalformedEvent(s, k)
  \/ \E s \in Streams : DoneEvent(s)
  \/ \E s \in Streams : ErrorEvent(s)
  \/ Render

Spec == Init /\ [][Next]_vars

\* The open stream s comes to its end: the server delivers done, the
\* transport fails, or the user clicks stop.
StreamEnds(s) ==
  /\ s <= nStreams
  /\ readyState[s] = "open"
  /\ StopGenerating \/ DoneEvent(s) \/ ErrorEvent(s)

\* Render can take a step exactly when updates are queued, and StreamEnds(s)
\* exactly when stream s is open (the stop button is there while it is).
RenderDue == pending # <<>>

StreamOpen(s) == s <= nStreams /\ readyState[s] = "open"

\* The client with React rendering whenever updates are queued, and every
\* open stream coming to its end: weak fairness of Render and of
\* StreamEnds(s), that is WF_vars(Render) and WF_vars(StreamEnds(s)), with
\* ENABLED <<Render>>_vars and ENABLED <<StreamEnds(s)>>_vars written out as
\* RenderDue and StreamOpen(s).
LiveSpec ==
  /\ Init
  /\ [][Next]_vars
  /\ []<>(~RenderDue) \/ []<><<Render>>_vars
  /\ \A s \in Streams : []<>(~StreamOpen(s)) \/ []<><<StreamEnds(s)>>_vars

\* ------------------------------------------- answers with embedded blocks
\* Mutant: a render that has returned can still be overwritten by its
\* failure.
MermaidSettlesTwice(id) ==
  /\ id \in DOMAIN dom
  /\ dom[id].view \in {"rendering", "widget"}
  /\ dom' = [dom EXCEPT ![id].view =
                IF dom[id].view = "rendering" THEN "widget" ELSE "fallback"]
  /\ last' = NoNote
  /\ UNCHANGED <<messages, thinking, input, isGenerating, showThinkingDetails,
                 eventSourceRef, nStreams, readyState, rawMarkdown,
                 lastAssistantMsgIndex, pending, nEvents, ended, sent,
                 gotChunk, mermaidLoaded>>

\* Mutant: the result of mermaid.render is written only if the effect has
\* not run again since the call.
MermaidSettlesIfCurrent(id) ==
  /\ id \in DOMAIN dom
  /\ dom[id].view = "rendering"
  /\ dom[id].seen = 1
  /\ dom' = [dom EXCEPT ![id].view =
                IF EngineAccepts(dom[id].code) THEN "widget" ELSE "fallback"]
  /\ last' = NoNote
  /\ UNCHANGED <<messages, thinking, input, isGenerating, showThinkingDetails,
                 eventSourceRef, nStreams, readyState, rawMarkdown,
                 lastAssistantMsgIndex, pending, nEvents, ended, sent,
                 gotChunk, mermaidLoaded>>

\* The awaited mermaid.render of placeholder id settles: the svg is spliced
\* in, or the catch block writes the error and the source.
MermaidSettles(id) ==
  /\ id \in DOMAIN dom
  /\ dom[id].view = "rendering"
  /\ dom' = [dom EXCEPT ![id].view =
                IF EngineAccepts(dom[id].code) THEN "widget" ELSE "fallback"]
  /\ last' = NoNote
  /\ UNCHANGED <<messages, thinking, input, isGenerating, showThinkingDetails,
                 eventSourceRef, nStreams, readyState, rawMarkdown,
                 lastAssistantMsgIndex, pending, nEvents, ended, sent,
                 gotChunk, mermaidLoaded>>

\* Chunk payloads that build fenced blocks, whole or piece by piece.
BlockChunkSet ==
  {<<"F", "m", "g">>, <<"F", "m", "!">>, <<"F">>, <<"F", "d", "j", "F">>,
   <<"F", "d", "!", "F">>}

BlockInputSet == {<<"p">>}

\* The page with or without the mermaid script.
BlockInit == InitState /\ mermaidLoaded \in BOOLEAN

BlockNext ==
  \/ \E v \in BlockInputSet : TypeInput(v)
  \/ ClickSubmit
  \/ \E s \in Streams, c \in BlockChunkSet : ChunkEvent(s, c)
  \/ \E s \in Streams : DoneEvent(s)
  \/ Render
  \/ \E id \in DOMAIN dom : MermaidSettles(id)

\* The same client, fed answers that contain diagram and table blocks.
BlockSpec == BlockInit /\ [][BlockNext]_vars

\* The ids a diagram placeholder can get within the bounds: a turn index
\* and an element counter (a closed diagram takes two chunks).
MermaidIds ==
  {<<"mermaid", i, k>> : i \in 1..(2 * MaxPrompts), k \in 0..(MaxEvents - 2)}

\* The same, with every mermaid.render that was called settling at some
\* time: the promise it returns resolves or rejects.
BlockLiveSpec ==
  /\ BlockInit
  /\ [][BlockNext]_vars
  /\ \A id \in MermaidIds : WF_vars(MermaidSettles(id))

\* ------------------------------------------------------- reading the state
IsPrefix(a, b) == Len(a) <= Len(b) /\ SubSeq(b, 1, Len(a)) = a

\* The number of user turns among the first i turns of msgs: the prompt (and
\* stream) that turn i belongs to.
RECURSIVE Owner(_, _)
Owner(msgs, i) ==
  IF i = 0 THEN 0
  ELSE Owner(msgs, i - 1) + (IF msgs[i].role = "user" THEN 1 ELSE 0)

\* The assistant turns that follow the user turn of prompt s, in order.
AnswerIdx(msgs, s) ==
  {i \in 1..Len(msgs) : msgs[i].role = "assistant" /\ Owner(msgs, i) = s}

RECURSIVE Pick(_, _, _)
Pick(msgs, i, s) ==
  IF i > Len(msgs) THEN <<>>
  ELSE (IF i \in AnswerIdx(msgs, s) THEN <<msgs[i]>> ELSE <<>>) \o Pick(msgs, i + 1, s)

AnswerTurns(msgs, s) == Pick(msgs, 1, s)

AssistantTurn(c) == [role |-> "assistant", content |-> c]

IsErrorTurn(m) == m = AssistantTurn(ErrorMessage)

\* The updates of stream s in the queue q.
Tagged(q, s) == {i \in 1..Len(q) : q[i].s = s}

OpenStreams == {s \in Streams : readyState[s] = "open"}

\* ------------------------------------------------------ answers as text
\* Chunk payloads that cut fenced blocks at every boundary.
SegChunkSet ==
  {<<"x">>, <<"F">>, <<"F", "m">>, <<"g", "F">>, <<"F", "p">>,
   <<" ", "c", "F">>, <<"j", "F">>, <<"!", "F">>}

SegNext ==
  \/ \E v \in BlockInputSet : TypeInput(v)
  \/ ClickSubmit
  \/ \E s \in Streams, c \in SegChunkSet : ChunkEvent(s, c)
  \/ Render

\* The same client, fed answers whose text is cut into chunks anywhere.
SegSpec == Init /\ [][SegNext]_vars

\* --------------------------------------------------- the reasoning section
ReasoningThinkSet == {<<"t">>, <<"u">>}

ReasoningNext ==
  \/ \E v \in BlockInputSet : TypeInput(v)
  \/ ClickSubmit
  \/ StopGenerating
  \/ ToggleThinkingDetails
  \/ \E s \in Streams, c \in ReasoningThinkSet : ThinkingEvent(s, c)
  \/ \E s \in Streams : ChunkEvent(s, <<"a">>)
  \/ \E s \in Streams : DoneEvent(s)
  \/ \E s \in Streams : ErrorEvent(s)
  \/ Render

\* The same client, with distinguishable reasoning steps and a user who
\* opens and closes the reasoning section.
ReasoningSpec == Init /\ [][ReasoningNext]_vars

\* ------------------------------------------------------------------ claims

\* C1: no event of a stream is applied once stopGenerating, done or onerror
\* has run for it.  A step never queues an update of an ended stream and
\* never changes its answer buffer, and the step of an event that arrives
\* late leaves the turn list, the reasoning log and the queue as they are.
LateStep ==
  /\ \A s \in Streams :
       ended[s] # "no" =>
         /\ rawMarkdown'[s] = rawMarkdown[s]
         /\ Cardinality(Tagged(pending', s)) <= Cardinality(Tagged(pending, s))
  /\ (last'.op = "late" /\ nEvents' = nEvents + 1) =>
         /\ messages' = messages
         /\ thinking' = thinking
         /\ pending' = pending

C1_LateEventsDiscarded == [][LateStep]_vars

\* A stream received a chunk, was stopped, and an event of it arrived after.
C1_Witness ==
  /\ last.op = "late"
  /\ ended[last.s] = "stop"
  /\ gotChunk[last.s]

WellFormed(k) ==
  IF k.id[1] = "mermaid" THEN k.body # <<>> /\ mermaidLoaded
                         ELSE k.body \in {<<"j">>, <<"c">>}

\* C2 (as claimed): for every diagram or table placeholder of the rendered
\* conversation the widget engine has been called exactly once.
C2_ExactlyOnce ==
  \A k \in Placeholders(messages) :
    k.id \in DOMAIN dom /\ dom[k.id].fired = 1

\* C2 (amended): every placeholder of the rendered conversation has been
\* hydrated, the widget engine has been called at most once for it, and
\* exactly once when its body is usable (diagram code not empty and mermaid
\* loaded, table configuration that parses), however often the effect ran.
C2_AtMostOnce ==
  /\ \A k \in Placeholders(messages) :
       /\ k.id \in DOMAIN dom
       /\ dom[k.id].fired <= 1
       /\ dom[k.id].fired = 1 <=> WellFormed(k)
  /\ DOMAIN dom \subseteq {k.id : k \in Placeholders(messages)}

\* A diagram was rendered by one engine call, and the effect has run again
\* on grown content since.
C2_Witness ==
  \E id \in DOMAIN dom :
    /\ id[1] = "mermaid"
    /\ dom[id].view = "widget"
    /\ dom[id].fired = 1
    /\ dom[id].seen >= 2

\* C3 (as claimed): after chunks c1..cn and done, once everything is
\* rendered, the prompt has one assistant turn holding c1 + ... + cn.
C3_DoneGivesConcatenation ==
  \A s \in Streams :
    (ended[s] = "done" /\ gotChunk[s] /\ pending = <<>>) =>
      AnswerTurns(messages, s) = <<AssistantTurn(sent[s])>>

\* C4 (as claimed): the chunks of one session insert one assistant turn and
\* afterwards only replace its content by the accumulated buffer.
C4_OneTurnPerSession ==
  \A s \in Streams :
    LET made == {i \in AnswerIdx(messages, s) : ~IsErrorTurn(messages[i])}
    IN  /\ Cardinality(made) <= 1
        /\ (gotChunk[s] /\ Tagged(pending, s) = {}) =>
              \E i \in made : messages[i].content = sent[s]

OpenStep ==
  (nStreams' > nStreams) => \A s \in 1..nStreams : readyState'[s] = "closed"

\* C5: at most one connection is open at any time, and a step that opens a
\* connection leaves every earlier one closed.
C5_OneOpenStream ==
  /\ [](Cardinality(OpenStreams) <= 1)
  /\ [][OpenStep]_vars

\* A second connection is open and the first one is closed.
C5_Witness ==
  /\ nStreams = 2
  /\ readyState[1] = "closed"
  /\ readyState[2] = "open"

\* The step of the stop button on an active stream.
StopStep ==
  /\ eventSourceRef # 0
  /\ eventSourceRef' = 0
  /\ nEvents' = nEvents
  /\ nStreams' = nStreams

StopEffect ==
  /\ readyState'[eventSourceRef] = "closed"
  /\ ~isGenerating'
  /\ pending' = <<>>

\* C6: a stop closes the connection and ends generating in the same step, and
\* the turn of a stopped stream holds exactly the chunks that had arrived.
C6_StopKeepsPartial ==
  /\ [][StopStep => StopEffect]_vars
  /\ [](\A s \in Streams :
          ended[s] = "stop" =>
            /\ readyState[s] = "closed"
            /\ AnswerTurns(messages, s) =
                 IF gotChunk[s] THEN <<AssistantTurn(sent[s])>> ELSE <<>>)

\* A stream was stopped after the chunks "a" and "b".
C6_Witness ==
  \E s \in Streams :
    /\ ended[s] = "stop"
    /\ sent[s] = <<"a", "b">>
    /\ ~isGenerating

\* C7 (as claimed): the failure turn is appended if and only if no answer
\* content had accumulated.
C7_ErrorTurnOnlyIfEmpty ==
  \A s \in Streams :
    (ended[s] = "error" /\ pending = <<>>) =>
      ((\E i \in AnswerIdx(messages, s) : IsErrorTurn(messages[i]))
         <=> sent[s] = <<>>)

\* C7 (amended): once rendered, an errored stream has exactly one failure
\* turn, as the last turn of its prompt, whether or not content had
\* accumulated; a stream that did not error has none.
C7_ErrorTurnAlways ==
  \A s \in Streams :
    LET turns == AnswerTurns(messages, s)
        errs  == {i \in 1..Len(turns) : IsErrorTurn(turns[i])}
    IN  /\ (ended[s] = "error" /\ pending = <<>>) =>
              (turns # <<>> /\ errs = {Len(turns)})
        /\ (ended[s] # "error") => (errs = {})

\* A stream errored after content had accumulated, and all is rendered.
C7_Witness ==
  \E s \in Streams :
    /\ ended[s] = "error"
    /\ sent[s] # <<>>
    /\ pending = <<>>
    /\ Len(AnswerTurns(messages, s)) >= 2

PreservedStep ==
  \A i \in 1..Len(messages) :
    /\ Len(messages') >= i
    /\ messages'[i].role = messages[i].role
    /\ IsPrefix(messages[i].content, messages'[i].content)
    /\ (Owner(messages, i) \in Streams /\ ended[Owner(messages, i)] = "error")
         => (messages'[i] = messages[i])

\* C8: a transport error closes the connection and ends generating; no turn
\* is ever removed, re-typed or shortened, and the turns of an errored stream
\* that were rendered keep their content.
C8_ErrorPreservesContent ==
  /\ [](\A s \in Streams :
          ended[s] = "error" =>
            /\ readyState[s] = "closed"
            /\ eventSourceRef # s
            /\ ((pending = <<>> /\ nStreams = s) => ~isGenerating))
  /\ [][PreservedStep]_vars

\* A stream errored with partial content rendered in its turn.
C8_Witness ==
  \E s \in Streams :
    /\ ended[s] = "error"
    /\ sent[s] = <<"a">>
    /\ pending = <<>>
    /\ AnswerTurns(messages, s) = <<AssistantTurn(<<"a">>), AssistantTurn(ErrorMessage)>>

BadStep ==
  (last'.op = "bad" /\ nEvents' = nEvents + 1) =>
    UNCHANGED <<messages, thinking, input, isGenerating, showThinkingDetails,
                eventSourceRef, nStreams, readyState, rawMarkdown,
                lastAssistantMsgIndex, pending, ended, sent, gotChunk, dom>>

\* C9: an event whose payload does not parse changes nothing but the count
\* of events: buffer, turns, reasoning log, queue, connection and generating
\* state stay as they are; the buffer holds the well-formed chunks only.
C9_MalformedDropped ==
  /\ [][BadStep]_vars
  /\ [](\A s \in Streams : rawMarkdown[s] = sent[s])

\* A malformed event was handled on an open stream that had received a chunk.
C9_Witness ==
  /\ last.op = "bad"
  /\ readyState[last.s] = "open"
  /\ sent[last.s] # <<>>

FrozenStep ==
  \A i \in 1..Len(messages) :
    /\ Len(messages') >= i
    /\ (messages[i].role = "user") => (messages'[i] = messages[i])
    /\ (messages'[i] # messages[i]) =>
         /\ messages[i].role = "assistant"
         /\ \A j \in (i + 1)..Len(messages) : messages[j].role # "assistant"
         /\ Owner(messages, i) \in Streams
         /\ ended[Owner(messages, i)] = "no"
         /\ readyState[Owner(messages, i)] = "open"

\* C10: a turn changes only while it is the most recent assistant turn and
\* its stream has not ended; user turns never change.
C10_FrozenAfterEnd == [][FrozenStep]_vars

\* The first stream has ended with its answer, and the second stream's answer
\* has been rendered after it.
C10_Witness ==
  /\ ended[1] = "done"
  /\ sent[1] # <<>>
  /\ AnswerTurns(messages, 1) = <<AssistantTurn(sent[1])>>
  /\ sent[2] # <<>>
  /\ AnswerTurns(messages, 2) = <<AssistantTurn(sent[2])>>

\* The payloads of the reasoning updates in the queue q, in order.
RECURSIVE QueuedSteps(_)
QueuedSteps(q) ==
  IF q = <<>> THEN <<>>
  ELSE (IF Head(q).t = "think" THEN <<Head(q).c>> ELSE <<>>) \o QueuedSteps(Tail(q))

\* The reasoning log once the queued updates are rendered.
ReasoningLog(th, q) == th \o QueuedSteps(q)

ReasoningStep ==
  /\ (nStreams' > nStreams) => (thinking' = <<>> /\ QueuedSteps(pending') = <<>>)
  /\ (nStreams' = nStreams) =>
       /\ IsPrefix(thinking, thinking')
       /\ ReasoningLog(thinking', pending') =
            IF last'.op = "think" /\ nEvents' = nEvents + 1
            THEN Append(ReasoningLog(thinking, pending), last'.c)
            ELSE ReasoningLog(thinking, pending)

\* C11: a new prompt empties the reasoning log; a thinking event adds its
\* step at the end of the log and no other step changes the log; the steps
\* that are displayed are never changed or removed until the next prompt,
\* whether the stream is running, done, stopped or failed.
C11_ReasoningLog == [][ReasoningStep]_vars

\* The second prompt's log holds its two steps in arrival order after the
\* stream was stopped.
C11_Witness ==
  /\ nStreams = 2
  /\ ended[1] # "no"
  /\ ended[2] = "stop"
  /\ ~isGenerating
  /\ thinking = <<"u", "t">>

\* The reasoning section is rendered (!isGenerating && thinking.length > 0),
\* and its list of steps is rendered inside it (showThinkingDetails).
SectionVisible == ~isGenerating /\ thinking # <<>>

DetailsVisible == SectionVisible /\ showThinkingDetails

DetailsStep ==
  /\ (nStreams' > nStreams) => ~showThinkingDetails'
  /\ (showThinkingDetails' /\ ~showThinkingDetails) =>
       /\ SectionVisible
       /\ nStreams' = nStreams
       /\ nEvents' = nEvents

\* C12: the reasoning section is on screen only when no stream is open and
\* the log is not empty; a new prompt collapses the details, and they are
\* expanded only by a step taken while the section is on screen (the user's
\* click), never by a prompt or an event.
C12_ReasoningHiddenWhileActive ==
  /\ [](SectionVisible => (OpenStreams = {} /\ eventSourceRef = 0))
  /\ [](DetailsVisible => thinking # <<>>)
  /\ [][DetailsStep]_vars

\* The second stream is open, reasoning steps have been rendered into the
\* log, and the section is not on screen.
C12_Witness ==
  /\ nStreams = 2
  /\ OpenStreams = {2}
  /\ thinking # <<>>
  /\ ~showThinkingDetails
  /\ ~SectionVisible

AppendOnlyStep ==
  LET changed == {i \in 1..Len(messages) :
                    Len(messages') < i \/ messages'[i] # messages[i]}
  IN  /\ Len(messages') >= Len(messages)
      /\ Cardinality(changed) <= 1
      /\ \A i \in changed :
           /\ messages[i].role = "assistant"
           /\ messages'[i].role = "assistant"
           /\ Owner(messages, i) \in Streams
           /\ lastAssistantMsgIndex'[Owner(messages, i)] = i - 1
           /\ \A j \in (i + 1)..Len(messages) : messages[j].role = "user"

\* C13: a step never shortens the turn list and never moves or re-types a
\* turn; it changes at most one existing turn, and that turn is the assistant
\* turn at the index its session tracks, with no assistant turn after it;
\* everything else a step does to the list is appending at the end.
C13_AppendOnly == [][AppendOnlyStep]_vars

\* The first answer was replaced in place by its buffer and the turns of a
\* second prompt were appended after it.
C13_Witness ==
  /\ Len(messages) = 4
  /\ messages[2] = AssistantTurn(<<"a", "b">>)
  /\ messages[3].role = "user"
  /\ messages[4].role = "assistant"

IdempotentStep ==
  /\ (last'.op = "stop" /\ last'.s = 0) =>
       UNCHANGED <<messages, thinking, input, isGenerating,
                   showThinkingDetails, eventSourceRef, nStreams, readyState,
                   rawMarkdown, lastAssistantMsgIndex, pending, nEvents,
                   ended, dom>>
  /\ (last'.op = "lateEnd" /\ nEvents' = nEvents + 1) =>
       /\ readyState[last'.s] = "closed"
       /\ UNCHANGED <<messages, thinking, input, isGenerating,
                      showThinkingDetails, eventSourceRef, nStreams,
                      readyState, rawMarkdown, lastAssistantMsgIndex,
                      pending, ended, dom>>

\* C14: a stop while no stream is current, and a done or error event of a
\* connection that is already closed, leave the turn list, the reasoning
\* log, the generating flag, the queue of updates, the connection reference
\* and every connection as they are.
C14_IdempotentClose == [][IdempotentStep]_vars

\* A done or error event of the stopped first stream arrived while the
\* second stream is current and open.
C14_Witness ==
  /\ last.op = "lateEnd"
  /\ last.s = 1
  /\ ended[1] = "stop"
  /\ eventSourceRef = 2
  /\ readyState[2] = "open"
  /\ isGenerating

\* The session as the chunk listener and the renderer see it: the committed
\* state with the tracked indices, the answer buffers and the update queue.
Session == [st |-> Cur(lastAssistantMsgIndex), raw |-> rawMarkdown, q |-> pending]

\* The chunk listener of stream s run on session x with payload c.
Listen(x, s, c) ==
  [x EXCEPT !.raw[s] = @ \o c, !.q = @ \o <<Upd("chunk", s, c)>>]

\* A render of session x.
Rendered(x) == [x EXCEPT !.st = Flush(x.st, x.q, x.raw), !.q = <<>>]

\* The turn list session x shows once rendered.
Doc(x) == Rendered(x).st.messages

\* C15: in every state with an open stream, handling chunk a and then chunk
\* b, with or without a render in between, gives the same turn list and the
\* same buffer as handling the single chunk a + b.
C15_Monotonic ==
  \A s \in OpenStreams : \A a \in ChunkSet, b \in ChunkSet :
    LET one  == Listen(Session, s, a \o b)
        two  == Listen(Listen(Session, s, a), s, b)
        twoR == Listen(Rendered(Listen(Session, s, a)), s, b)
    IN  /\ Doc(two) = Doc(one)
        /\ Doc(twoR) = Doc(one)
        /\ two.raw = one.raw
        /\ twoR.raw = one.raw

\* A stream is open with an answer turn on screen and a chunk still queued:
\* a session state in which further chunks replace the turn.
C15_Witness ==
  \E s \in OpenStreams :
    /\ AnswerTurns(messages, s) = <<AssistantTurn(<<"a">>)>>
    /\ sent[s] = <<"a", "b">>
    /\ Tagged(pending, s) # {}

RECURSIVE Rejoin(_)
Rejoin(sgs) == IF sgs = <<>> THEN <<>> ELSE Head(sgs).raw \o Rejoin(Tail(sgs))

Partitions(content) ==
  LET sgs == Segments(content)
  IN  /\ Rejoin(sgs) = content
      /\ \A n \in 1..Len(sgs) :
           /\ sgs[n].key = n - 1
           /\ sgs[n].raw # <<>>
           /\ (sgs[n].type = "md") => (sgs[n].body = sgs[n].raw)
           /\ (sgs[n].type # "md") =>
                 /\ Len(sgs[n].raw) >= 3
                 /\ sgs[n].raw[1] = "F"
                 /\ TagName(sgs[n].raw[2]) = sgs[n].type
                 /\ sgs[n].raw[Len(sgs[n].raw)] = "F"
                 /\ sgs[n].body = Trim(SubSeq(sgs[n].raw, 3, Len(sgs[n].raw) - 1))

\* C17: the segments of every answer on screen, and of every answer buffer,
\* put together in output order give the text back; no segment is empty, a
\* text segment is its slice, and a typed segment is a whole fenced region
\* from its opening fence and tag to its closing fence.
C17_SegmentsPartition ==
  /\ \A i \in 1..Len(messages) :
       (messages[i].role = "assistant") => Partitions(messages[i].content)
  /\ \A s \in Streams : Partitions(rawMarkdown[s])

\* An answer on screen is cut into text, a typed block and text again.
C17_Witness ==
  \E i \in 1..Len(messages) :
    /\ messages[i].role = "assistant"
    /\ LET sgs == Segments(messages[i].content)
       IN  /\ Len(sgs) = 3
           /\ sgs[1].type = "md"
           /\ sgs[2].type \in {"mermaid", "plotly", "datatables"}
           /\ sgs[3].type = "md"

\* The typed segments among sgs, in order, by type and body.
RECURSIVE Typed(_)
Typed(sgs) ==
  IF sgs = <<>> THEN <<>>
  ELSE (IF Head(sgs).type = "md" THEN <<>>
        ELSE <<[type |-> Head(sgs).type, body |-> Head(sgs).body]>>)
       \o Typed(Tail(sgs))

\* The position of the last fence in c, 0 when there is none.
LastFence(c) ==
  LET fs == {i \in 1..Len(c) : c[i] = "F"}
  IN  IF fs = {} THEN 0 ELSE CHOOSE i \in fs : \A j \in fs : j <= i

\* No fence is left open at the end of text c: a fence added after c would
\* not close anything.
Closed(c) == Typed(Segments(c \o <<"F">>)) = Typed(Segments(c))

\* Text c ends in a tagged fence that is opened at position o and not closed,
\* after a prefix that leaves no fence open.
UnterminatedAt(c, o) ==
  /\ o = LastFence(c)
  /\ o > 0
  /\ o < Len(c)
  /\ TagName(c[o + 1]) # "none"
  /\ Closed(SubSeq(c, 1, o - 1))

OpenFenceIsText(c) ==
  LET o == LastFence(c)
      prefix == SubSeq(c, 1, o - 1)
      sgs == Segments(c)
  IN  UnterminatedAt(c, o) =>
        /\ Typed(sgs) = Typed(Segments(prefix))
        /\ sgs[Len(sgs)].type = "md"
        /\ Len(sgs[Len(sgs)].raw) >= Len(c) - o + 1
        /\ (LastFence(prefix) = 0) => (sgs = <<MdSegment(0, c)>>)
        /\ Typed(Segments(c \o <<"F">>)) =
             Append(Typed(Segments(prefix)),
                    [type |-> TagName(c[o + 1]),
                     body |-> Trim(SubSeq(c, o + 2, Len(c)))])

\* C18: while an answer ends in a tagged fence that is not closed, the fence
\* and what follows it are part of the last text segment and no typed
\* segment is made for it; when the text before it has no fence the whole
\* answer is one text segment; with the closing fence appended, the typed
\* segment is there.
C18_OpenFenceIsText ==
  /\ \A i \in 1..Len(messages) :
       (messages[i].role = "assistant") => OpenFenceIsText(messages[i].content)
  /\ \A s \in Streams : OpenFenceIsText(rawMarkdown[s])

\* An answer on screen is prose followed by an open diagram fence, and is
\* rendered as one text segment.
C18_Witness ==
  \E i \in 1..Len(messages) :
    /\ messages[i] = AssistantTurn(<<"x", "F", "m", "x">>)
    /\ Segments(messages[i].content) = <<MdSegment(0, <<"x", "F", "m", "x">>)>>

\* The bodies of the plotly segments of content, in order.
PlotlyBodies(content) ==
  LET ty == Typed(Segments(content))
      P(x) == x.type = "plotly"
      ps == SelectSeq(ty, P)
  IN  [n \in 1..Len(ps) |-> ps[n].body]

ChartsOnlyForConfigs(content) ==
  LET bodies == PlotlyBodies(content)
      els == Charts(content)
  IN  /\ Len(els) = Len(bodies)
      /\ \A n \in 1..Len(els) :
           IF bodies[n] = <<"c">>
           THEN els[n].view = "chart"
           ELSE /\ els[n].view = "fallback"
                /\ els[n].shown = bodies[n]

\* C19: every plotly segment of an answer on screen gives one element; it is
\* a chart when the trimmed body is a JSON object with data and layout, and
\* otherwise (text that is not JSON, JSON without data or layout, an empty
\* body) the error fallback showing the body; the hydration effect never
\* handles a plotly segment.
C19_ChartOnlyForValidConfig ==
  /\ \A i \in 1..Len(messages) :
       (messages[i].role = "assistant") => ChartsOnlyForConfigs(messages[i].content)
  /\ \A id \in DOMAIN dom : id[1] # "plotly"

\* An answer on screen holds a plotly block that is not JSON and one with
\* data and layout: a fallback and a chart.
C19_Witness ==
  \E i \in 1..Len(messages) :
    /\ messages[i].role = "assistant"
    /\ PlotlyBodies(messages[i].content) = << <<"!">>, <<"c">> >>
    /\ Charts(messages[i].content)[1].view = "fallback"
    /\ Charts(messages[i].content)[2].view = "chart"

\* Placeholder k cannot become a widget: its table configuration does not
\* parse, its diagram source is missing or rejected, or mermaid is missing.
Malformed(k) ==
  IF k.id[1] = "mermaid" THEN ~(EngineAccepts(k.body) /\ mermaidLoaded)
                         ELSE k.body \notin {<<"j">>, <<"c">>}

FailedStep ==
  \A id \in DOMAIN dom :
    (dom[id].view \in {"fallback", "widget"}) =>
      /\ id \in DOMAIN dom'
      /\ dom'[id].view = dom[id].view
      /\ dom'[id].fired = dom[id].fired

\* C20: every placeholder of every answer on screen is hydrated whatever
\* happens to the others: a malformed one shows its fallback (a diagram once
\* the engine has rejected it) and a well-formed one its widget (a diagram
\* once the engine has returned); a slot that shows its fallback or its
\* widget keeps it and is not handed to the engine again.
C20_FailureIsLocal ==
  /\ [](\A k \in Placeholders(messages) :
          /\ k.id \in DOMAIN dom
          /\ dom[k.id].view \in
               (IF Malformed(k) THEN {"fallback"} ELSE {"widget"})
               \cup (IF k.id[1] = "mermaid" /\ dom[k.id].fired = 1
                     THEN {"rendering"} ELSE {})
          /\ dom[k.id].fired <= 1)
  /\ [][FailedStep]_vars

\* One answer holds a diagram the engine rejected and a table that was
\* built after it, and the effect has run again since the rejection.
C20_Witness ==
  \E a \in DOMAIN dom, b \in DOMAIN dom :
    /\ a[1] = "mermaid"
    /\ b[1] = "datatables"
    /\ a[2] = b[2]
    /\ a[3] < b[3]
    /\ dom[a].view = "fallback"
    /\ dom[a].fired = 1
    /\ dom[a].seen >= 2
    /\ dom[b].view = "widget"

\* The stop button is rendered while isGenerating, the submit button
\* otherwise.
StopOffered == isGenerating

SubmitOffered == ~isGenerating

\* eventSourceRef holds a connection that is open.
StreamActive == eventSourceRef # 0 /\ readyState[eventSourceRef] = "open"

\* C21 (as claimed): in every state the stop control is offered exactly when
\* eventSourceRef holds an open connection, and the submit control otherwise.
C21_StopIffActive ==
  /\ StopOffered <=> StreamActive
  /\ SubmitOffered <=> ~StreamActive

\* C21 (amended): while a connection is open the stop control is offered and
\* eventSourceRef holds that connection; the submit control is offered only
\* when no connection is open; once the queued updates are rendered the stop
\* control is offered exactly when a connection is open.  After done or
\* error the stop control stays until the next render.
C21_StopWhileActive ==
  /\ (OpenStreams # {}) => (StopOffered /\ OpenStreams = {eventSourceRef})
  /\ (eventSourceRef # 0) => StreamActive
  /\ SubmitOffered => ~StreamActive
  /\ (pending = <<>>) => (StopOffered <=> StreamActive)

\* The first stream is done and rendered, the second is open, and the stop
\* control is offered.
C21_Witness ==
  /\ ended[1] = "done"
  /\ nStreams = 2
  /\ StreamActive
  /\ eventSourceRef = 2
  /\ StopOffered
  /\ pending = <<>>

\* Text v is empty or whitespace only.
Blank(v) == \A n \in 1..Len(v) : v[n] = " "

\* The user turns of msgs, as a set of positions.
UserTurns(msgs) == {i \in 1..Len(msgs) : msgs[i].role = "user"}

BlankSubmitStep ==
  /\ (last'.op = "blank") =>
       /\ Blank(input)
       /\ UNCHANGED <<messages, thinking, input, isGenerating,
                      showThinkingDetails, eventSourceRef, nStreams,
                      readyState, rawMarkdown, lastAssistantMsgIndex,
                      pending, nEvents, ended, sent, gotChunk, dom>>
  /\ Blank(input) =>
       /\ nStreams' = nStreams
       /\ UserTurns(messages') = UserTurns(messages)
       /\ IsPrefix(thinking, thinking')
  /\ (nStreams' > nStreams) =>
       /\ ~Blank(input)
       /\ messages'[Len(messages')] = [role |-> "user", content |-> Trim(input)]

\* C22: sendPrompt called with input that is empty or only whitespace
\* changes nothing; no step taken while the input is blank opens a
\* connection, appends a user turn or drops a reasoning step; and a step that
\* opens a connection appends the trimmed, non-empty input as a user turn.
C22_BlankNotSubmitted == [][BlankSubmitStep]_vars

\* Enter was pressed on whitespace-only input after a stream that left an
\* answer and reasoning steps on screen.
C22_Witness ==
  /\ last.op = "blank"
  /\ input = <<" ">>
  /\ ~isGenerating
  /\ thinking # <<>>
  /\ messages # <<>>
  /\ nStreams = 1

\* Text r holds a tagged fence and a fence that closes it.
HasClosedRegion(r) ==
  \E i \in 1..Len(r), j \in 1..Len(r) :
    /\ r[i] = "F"
    /\ i < Len(r)
    /\ TagName(r[i + 1]) # "none"
    /\ j >= i + 2
    /\ r[j] = "F"

OneSegmentPerRegion(content) ==
  LET sgs == Segments(content)
  IN  \A n \in 1..Len(sgs) :
        LET r == sgs[n].raw
        IN  IF sgs[n].type = "md"
            THEN /\ ~HasClosedRegion(r)
                 /\ (n > 1) => (sgs[n - 1].type # "md")
            ELSE /\ r[1] = "F"
                 /\ TagName(r[2]) = sgs[n].type
                 /\ r[Len(r)] = "F"
                 /\ \A k \in 3..(Len(r) - 1) : r[k] # "F"
                 /\ sgs[n].body = Trim(SubSeq(r, 3, Len(r) - 1))
                 /\ IF sgs[n].body = <<>> THEN TRUE
                    ELSE /\ sgs[n].body[1] # " "
                         /\ sgs[n].body[Len(sgs[n].body)] # " "

\* C23: in every answer on screen and every buffer, a typed segment is one
\* region from a tagged fence to the first fence after it, with the type of
\* its tag and the body between them trimmed; the text between two regions,
\* when there is any, is one text segment; and no text segment contains a
\* closed tagged region.
C23_OneTypedSegmentPerFence ==
  /\ \A i \in 1..Len(messages) :
       (messages[i].role = "assistant") => OneSegmentPerRegion(messages[i].content)
  /\ \A s \in Streams : OneSegmentPerRegion(rawMarkdown[s])

\* An answer on screen is prose followed by a closed diagram fence: a text
\* segment and a diagram segment, in that order.
C23_Witness ==
  \E i \in 1..Len(messages) :
    /\ messages[i] = AssistantTurn(<<"x", "F", "m", "g", "F">>)
    /\ Segments(messages[i].content) =
         <<MdSegment(0, <<"x">>),
           [type |-> "mermaid", key |-> 1, body |-> <<"g">>,
            raw |-> <<"F", "m", "g", "F">>]>>

AtomicStep ==
  \A id \in DOMAIN dom :
    (dom[id].view = "rendering") =>
      /\ id \in DOMAIN dom'
      /\ dom'[id].fired = dom[id].fired
      /\ (dom'[id].seen > dom[id].seen) => (dom'[id].view = "rendering")

\* C24: a run of the hydration effect that finds a diagram whose render is
\* still pending leaves it alone: the render is not started again and the
\* placeholder keeps waiting; a pending diagram has exactly one render
\* started, and no slot ever has more than one.
C24_HydrationAtomic ==
  /\ [](\A id \in DOMAIN dom :
          /\ dom[id].fired <= 1
          /\ (dom[id].view = "rendering") => (dom[id].fired = 1))
  /\ [][AtomicStep]_vars

\* The effect has run twice over a diagram whose render has not returned.
C24_Witness ==
  \E id \in DOMAIN dom :
    /\ id[1] = "mermaid"
    /\ dom[id].view = "rendering"
    /\ dom[id].seen >= 2
    /\ dom[id].fired = 1

MonotoneStep ==
  /\ DOMAIN dom \subseteq DOMAIN dom'
  /\ \A id \in DOMAIN dom :
       /\ (dom[id].view = "rendering") =>
            (dom'[id].view \in {"rendering", "widget", "fallback"})
       /\ (dom[id].view = "widget") => (dom'[id].view = "widget")
       /\ (dom[id].view = "fallback") => (dom'[id].view = "fallback")
       /\ dom'[id].fired >= dom[id].fired
  /\ \A id \in DOMAIN dom' \ DOMAIN dom :
       /\ dom'[id].view \in {"rendering", "widget", "fallback"}
       /\ (dom'[id].view = "rendering") => (id[1] = "mermaid")

\* C25: the record of a slot is never removed; a slot that is first observed
\* becomes pending (a diagram handed to the engine) or takes its final state
\* within that run of the effect; a pending slot stays pending or becomes
\* hydrated or failed; a hydrated slot stays hydrated and a failed slot
\* stays failed.
C25_HydrationMonotone ==
  /\ [](\A id \in DOMAIN dom :
          dom[id].view \in {"rendering", "widget", "fallback"})
  /\ [][MonotoneStep]_vars

\* Two diagrams have left pending, one hydrated and one failed after the
\* engine was called, and the effect has run over the first one again.
C25_Witness ==
  \E a \in DOMAIN dom, b \in DOMAIN dom :
    /\ a[1] = "mermaid"
    /\ b[1] = "mermaid"
    /\ dom[a].view = "widget"
    /\ dom[a].seen >= 2
    /\ dom[b].view = "fallback"
    /\ dom[b].fired = 1

\* The assistant turns of prompt s made by chunk events: all but failure
\* turns.
RECURSIVE ChunkTurns(_)
ChunkTurns(turns) ==
  IF turns = <<>> THEN <<>>
  ELSE (IF IsErrorTurn(Head(turns)) THEN <<>> ELSE <<Head(turns)>>)
       \o ChunkTurns(Tail(turns))

\* C26 (as claimed): for every prompt the chunk events have made at most one
\* assistant turn, and once every queued update is rendered that turn holds
\* the whole accumulated text, whenever the updates were applied.
C26_UpdaterOrderIrrelevant ==
  \A s \in Streams :
    LET made == ChunkTurns(AnswerTurns(messages, s))
    IN  /\ Len(made) <= 1
        /\ (pending = <<>> /\ gotChunk[s]) =>
              (Len(made) = 1 /\ made[1].content = rawMarkdown[s])

StaleStep ==
  /\ (last'.op = "lateEnd" /\ nEvents' = nEvents + 1) =>
       /\ eventSourceRef' = eventSourceRef
       /\ readyState' = readyState
       /\ isGenerating' = isGenerating
       /\ pending' = pending
  /\ (last'.op = "stop" /\ last'.s # 0) =>
       /\ OpenStreams = {last'.s}
       /\ OpenStreams' = {}

\* C27: a done or error event of a stream that has been superseded leaves
\* the connection reference, every connection and the generating flag as
\* they are; an open connection is always the one eventSourceRef holds, with
\* the stop control offered, and a stop closes it.
C27_StaleCallbackHarmless ==
  /\ [](\A s \in OpenStreams : eventSourceRef = s /\ isGenerating)
  /\ [][StaleStep]_vars

\* A done or error event of the finished first stream arrived while the
\* second stream is open, current and has received content.
C27_Witness ==
  /\ last.op = "lateEnd"
  /\ last.s = 1
  /\ ended[1] = "done"
  /\ eventSourceRef = 2
  /\ readyState[2] = "open"
  /\ gotChunk[2]
  /\ isGenerating

\* Text a occurs in text b as a contiguous piece.
IsInfix(a, b) ==
  \E k \in 0..(Len(b) - Len(a)) : SubSeq(b, k + 1, k + Len(a)) = a

\* The streams whose chunk updates are in the queue q.
ChunkStreams(q) == {q[n].s : n \in {m \in 1..Len(q) : q[m].t = "chunk"}}

OwnTurnStep ==
  /\ \A i \in 1..Len(messages) :
       (Len(messages') >= i /\ messages'[i] # messages[i]) =>
         /\ Owner(messages, i) \in ChunkStreams(pending)
         /\ Owner(messages', i) = Owner(messages, i)
  /\ \A j \in (Len(messages) + 1)..Len(messages') :
       (messages'[j].role = "assistant" /\ ~IsErrorTurn(messages'[j])) =>
         /\ Owner(messages', j) \in ChunkStreams(pending)
         /\ \A u \in UserTurns(messages') :
              (u > j) => (Owner(messages', u) > Owner(messages', j))

\* C28: a step changes a turn only of a prompt whose stream has a chunk
\* update in the queue, and the answer turns it adds belong to such prompts
\* and sit between the prompt's user turn and the next user turn; the content
\* of every answer turn is text that the stream of its own prompt sent.
C28_OwnTurnOnly ==
  /\ [](\A i \in 1..Len(messages) :
          (messages[i].role = "assistant" /\ ~IsErrorTurn(messages[i])) =>
            /\ Owner(messages, i) \in 1..nStreams
            /\ IsInfix(messages[i].content, sent[Owner(messages, i)]))
  /\ [][OwnTurnStep]_vars

\* Two prompts, each followed by the answer of its own stream.
C28_Witness ==
  /\ Len(messages) = 4
  /\ messages[1].role = "user"
  /\ messages[2] = AssistantTurn(<<"a">>)
  /\ messages[3].role = "user"
  /\ messages[4] = AssistantTurn(<<"b", "b">>)
  /\ sent = << <<"a">>, <<"b", "b">> >>

\* The elements of content s, the trailing text left out, are the elements
\* of the longer content c at the same positions; the position of the
\* trailing text of s is taken in c as well, by text or by the block that
\* the added text closed.
StableUnder(s, c) ==
  LET a == Segments(s)
      b == Segments(c)
  IN  /\ Len(b) >= Len(a)
      /\ \A n \in 1..Len(a) :
           IF n = Len(a) /\ a[n].type = "md"
           THEN b[n].key = a[n].key
           ELSE b[n] = a[n]

\* C29: for the text a stream has accumulated and every prefix of it, the
\* elements of the prefix other than its trailing text are elements of the
\* whole text, same type, body and counter, at the same positions.
C29_StableUnderAppend ==
  \A s \in Streams :
    \A k \in 0..Len(rawMarkdown[s]) :
      StableUnder(SubSeq(rawMarkdown[s], 1, k), rawMarkdown[s])

\* Text, a diagram and text again: the prefixes end inside the fence, at its
\* end and after it.
C29_Witness ==
  /\ rawMarkdown[1] = <<"x", "F", "m", "g", "F", "x">>
  /\ Len(Segments(rawMarkdown[1])) = 3
  /\ Len(Segments(SubSeq(rawMarkdown[1], 1, 4))) = 1

\* The diagram and table elements of the conversation, by turn and position.
Slots(msgs) ==
  UNION {
    {<<i, n>> : n \in {m \in 1..Len(Segments(msgs[i].content)) :
                         Segments(msgs[i].content)[m].type \in {"mermaid", "datatables"}}}
    : i \in {n \in 1..Len(msgs) : msgs[n].role = "assistant"}}

\* C30: there are as many ids among the diagram and table elements of the
\* conversation as there are such elements.
C30_SlotIdsUnique ==
  Cardinality({p.id : p \in Placeholders(messages)}) = Cardinality(Slots(messages))

\* Two tables in the first answer and a table in the second answer.
C30_Witness ==
  /\ Len(messages) = 4
  /\ messages[2] = AssistantTurn(<<"F", "d", "j", "F", "F", "d", "j", "F">>)
  /\ messages[4] = AssistantTurn(<<"F", "d", "j", "F">>)
  /\ Cardinality(Slots(messages)) = 3

BusyEnterStep ==
  /\ (last'.op = "busy") =>
       /\ isGenerating
       /\ last'.s = eventSourceRef
       /\ UNCHANGED <<messages, input, thinking, showThinkingDetails,
                      isGenerating, eventSourceRef, readyState, nStreams,
                      rawMarkdown, lastAssistantMsgIndex, pending>>
  /\ (nStreams' # nStreams \/ UserTurns(messages') # UserTurns(messages)) =>
       /\ ~isGenerating
       /\ OpenStreams = {}
       /\ ~Blank(input)

\* C31: Enter pressed while an answer is generating leaves the conversation,
\* the input, the reasoning log and the connection as they are; whenever a
\* stream is open an answer is generating, so Enter takes that branch; and a
\* step that adds a user turn or opens a stream starts from a state that is
\* not generating and has no open stream.
C31_EnterWhileActiveIgnored ==
  /\ [](OpenStreams # {} => isGenerating /\ OpenStreams = {eventSourceRef})
  /\ [][BusyEnterStep]_vars

\* Enter was pressed with a prompt typed while the first stream is open and
\* has delivered reasoning and content.
C31_Witness ==
  /\ last.op = "busy"
  /\ last.s = 1
  /\ readyState[1] = "open"
  /\ ~Blank(input)
  /\ thinking # <<>>
  /\ gotChunk[1]
  /\ Cardinality(UserTurns(messages)) = 1

\* Placeholder id is an element of a turn on screen.
Shown(id) == \E p \in Placeholders(messages) : p.id = id

\* Placeholder id shows its widget or its fallback.
Settled(id) == id \in DOMAIN dom /\ dom[id].view \in {"widget", "fallback"}

\* C32: every diagram placeholder of a turn on screen comes to show its
\* widget or its fallback, given that every mermaid.render that was called
\* settles, and every table placeholder on screen shows its widget or its
\* fallback at once; all diagram placeholders have ids within MermaidIds.
C32_EverySlotSettles ==
  /\ [](\A p \in Placeholders(messages) :
          IF p.id[1] = "mermaid" THEN p.id \in MermaidIds ELSE Settled(p.id))
  /\ \A id \in MermaidIds : Shown(id) ~> Settled(id)

\* A diagram that was drawn although the effect ran twice more after its
\* render was called, next to a table, with nothing left pending.
C32_Witness ==
  /\ \E a \in DOMAIN dom, b \in DOMAIN dom :
       /\ a[1] = "mermaid"
       /\ b[1] = "datatables"
       /\ dom[a].view = "widget"
       /\ dom[a].fired = 1
       /\ dom[a].seen >= 3
       /\ dom[b].view = "widget"
  /\ \A p \in Placeholders(messages) : Settled(p.id)

IdleUntilPromptStep ==
  (~isGenerating /\ isGenerating') =>
    /\ nStreams' = nStreams + 1
    /\ eventSourceRef' = nStreams'
    /\ readyState'[nStreams'] = "open"
    /\ ~Blank(input)

\* C33: every open stream leads to a state where its connection is closed
\* and isGenerating is false, given that it is ended by done, by a transport
\* error or by stop and that React renders; a stream that has ended has its
\* connection closed; and isGenerating turns true only in a step that
\* submits a non-blank prompt and opens the next stream.
C33_StreamReturnsToIdle ==
  /\ [](\A s \in Streams : ended[s] # "no" => readyState[s] = "closed")
  /\ [][IdleUntilPromptStep]_vars
  /\ \A s \in Streams :
       (readyState[s] = "open") ~> (readyState[s] = "closed" /\ ~isGenerating)

\* The first stream was ended by done and the second by stop, and the client
\* is idle.
C33_Witness ==
  /\ ended = <<"done", "stop">>
  /\ readyState = <<"closed", "closed">>
  /\ ~isGenerating
  /\ eventSourceRef = 0
  /\ pending = <<>>

====
